---- MODULE Spec2Model ----
(***************************************************************************)
(* Coin Maker backend (src/server.js): the sale / settlement / transfer    *)
(* handlers over the Realtime DB, as a state machine.                      *)
(*                                                                         *)
(* Every handler is an async function; the only suspension points are its  *)
(* `await`s.  Each awaited store operation (once('value') / set) is one    *)
(* atomic step of the handler's process; the synchronous code between two  *)
(* awaits belongs to the step of the await that precedes it.  An awaited   *)
(* oracle query (axios.get to TonCenter) is a step of its own whose answer *)
(* is a nondeterministic input.                                            *)
(*                                                                         *)
(* Money (TON) is a fixed-point integer counted in units of 1e-9 TON, the  *)
(* resolution the code rounds to with toFixed(9).  Token quantities are    *)
(* integers.  Date.now() time stamps are not modelled, except that         *)
(* confirmedAt is a flag and a scanned transaction carries its age.        *)
(***************************************************************************)
EXTENDS Integers, Sequences, FiniteSets, Bags, TLC

(***************************************************************************)
(* Bounds of the model.                                                    *)
(***************************************************************************)
NProcs == 2          \* handler invocations that may be in flight at once
MaxBuys == 1         \* sales created in one behaviour
MaxConfirms == 2     \* confirm calls that go on to verify a payment
MaxTransfers == 1    \* transfers that pass their balance check
MaxQty == 2          \* largest amountTokens / amount of a request
MaxTxs == 1          \* transactions in one getTransactions answer
InitSupply == 3      \* totalSupply of the listing token
MaxSales == 2        \* sales created in a behaviour of the two-sale specifications
MaxMoves == 2        \* transfers accepted in a behaviour of TransferSpec
InitBalance == 2     \* balance every account holds when the transfers start
MaxCrashes == 1      \* times the server process dies in a behaviour of CrashSpec

(***************************************************************************)
(* Program constants.                                                      *)
(***************************************************************************)
DefaultDynamicPrice == 100000000   \* 0.1 TON
ListingPrice == 200000000          \* pricePerToken of the listing token, 0.2 TON
EpsilonNano == 100                 \* 0.0000001 TON
AlphaInverse == 200                \* alpha = 0.005 = 1 / 200
DaySeconds == 86400                \* 60 * 60 * 24

Procs == 1..NProcs

(***************************************************************************)
(* Addresses are strings; a string is a sequence of characters so that     *)
(* normalizeAddr can be computed.  NoAddr is a missing / empty address.    *)
(***************************************************************************)
NoAddr == << >>
Alice == <<"A", "b">>
AliceAlt == <<"a", "-", "B">>
Bob == <<"c", "1">>
Owner == <<"O", "w">>
Accounts == {Alice, Bob, Owner}
Buyers == {Alice}

Upper == {"A", "B", "C", "O", "W"}
AlphaNum == Upper \cup {"a", "b", "c", "o", "w", "0", "1"}

toLowerCase(c) ==
  CASE c = "A" -> "a"
    [] c = "B" -> "b"
    [] c = "C" -> "c"
    [] c = "O" -> "o"
    [] c = "W" -> "w"
    [] OTHER -> c

RECURSIVE StripLower(_)
StripLower(s) ==
  IF s = << >> THEN << >>
  ELSE IF Head(s) \in AlphaNum
       THEN <<toLowerCase(Head(s))>> \o StripLower(Tail(s))
       ELSE StripLower(Tail(s))

normalizeAddr(a) == IF a = NoAddr THEN << >> ELSE StripLower(a)

(***************************************************************************)
(* The store.                                                              *)
(***************************************************************************)
TokenIds == {"L", "U"}
Null == "null"

VARIABLES
  tokens,     \* tokens/<id>
  sales,      \* sales/<id>, a function on the ids of the sales created
  balances,   \* balances/<tokenId>/<account>
  history,    \* history/<account>: the bag of the entries stored under it
  nextUid,    \* the next sale id uid() returns
  pc,         \* per process: the await it is suspended at, "sent" or "idle"
  loc,        \* per process: the handler's locals that it still reads
  res,        \* per process: the response it has sent and that is not yet closed
  budget      \* requests that may still be accepted, per endpoint

vars == <<tokens, sales, balances, history, nextUid, pc, loc, res, budget>>
store == <<tokens, sales, balances, history>>

IdleLoc == << >>
NoRes == [code |-> 0, body |-> "none"]

ListingToken ==
  [type |-> "listing", owner |-> Owner, totalSupply |-> InitSupply,
   remainingSupply |-> InitSupply, pricePerToken |-> ListingPrice]
UserToken ==
  [type |-> "user", owner |-> Owner, dynamicPrice |-> DefaultDynamicPrice,
   supplyIssued |-> 0]

\* The server with the tokens `created` in its store, no sale yet, every
\* balance `held`, and `b` requests to accept.
InitWith(created, held, b) ==
  /\ tokens = [t \in created |-> IF t = "L" THEN ListingToken ELSE UserToken]
  /\ sales = << >>
  /\ balances = [t \in TokenIds |-> [a \in Accounts |-> held]]
  /\ history = [a \in Accounts |-> EmptyBag]
  /\ nextUid = 1
  /\ pc = [p \in Procs |-> "idle"]
  /\ loc = [p \in Procs |-> IdleLoc]
  /\ res = [p \in Procs |-> NoRes]
  /\ budget = b

Init ==
  InitWith(TokenIds, 0, [buy |-> MaxBuys, confirm |-> MaxConfirms, transfer |-> MaxTransfers])

(***************************************************************************)
(* Helpers of the handlers.                                                *)
(***************************************************************************)
Max(a, b) == IF a >= b THEN a ELSE b

\* Number((x).toFixed(9)) of a quotient n / d of non-negative integers counted
\* in 1e-9 units: rounded to the nearest unit, halves up.
toFixed9(n, d) == (2 * n + d) \div (2 * d)

\* Requests arrive at an endpoint while its budget lasts.  A request that is
\* accepted (passes its handler's first checks) uses the budget up; one that is
\* turned away does not.
Open(endpoint) == budget[endpoint] > 0

Accept(endpoint) == budget' = [budget EXCEPT ![endpoint] = @ - 1]

\* Node runs one turn of one handler at a time: a handler that has sent its
\* response ends its turn (Close) before any other handler runs.
NoTurnOpen == \A q \in Procs : pc[q] # "sent"

\* Process p is suspended at the await `label`, and its turn may run.
At(p, label) == pc[p] = label /\ NoTurnOpen

\* The processes are interchangeable: a request is served by the first free one.
Free(p) == At(p, "idle") /\ \A q \in Procs : q < p => pc[q] # "idle"

\* res.status(code).json(r): the handler has ended.
Send(p, r) ==
  /\ pc' = [pc EXCEPT ![p] = "sent"]
  /\ loc' = [loc EXCEPT ![p] = IdleLoc]
  /\ res' = [res EXCEPT ![p] = r]

\* A response is its status code and the error / message / reason of its body.
Respond(p, code, body) == Send(p, [code |-> code, body |-> body])

\* The locals of l that the handler still reads.
Keep(l, names) == [n \in names |-> l[n]]

Goto(p, label, l) ==
  /\ pc' = [pc EXCEPT ![p] = label]
  /\ loc' = [loc EXCEPT ![p] = l]
  /\ UNCHANGED res

\* history/<acct>/<key>.set(entry).  A key is a sale id, under which only the
\* buy handler writes (its 'pending' entry), or a fresh uid(): Fresh stands for
\* a key that no stored entry has, so that the entries of an account form a bag.
Fresh == 0

StoredUnder(acct, key) ==
  {e \in BagToSet(history[acct]) : e.type = "pending" /\ e.saleId = key}

HistorySet(acct, key, entry) ==
  history' =
    [history EXCEPT ![acct] =
       IF key = Fresh
       THEN @ (+) SetToBag({entry})
       ELSE [e \in BagToSet(@) \ StoredUnder(acct, key) |-> @[e]] (+) SetToBag({entry})]


(***************************************************************************)
(* POST /api/tokens/:id/buy  (create sale)                                 *)
(***************************************************************************)
\* Number((amount * price).toFixed(9))
Cost(amount, price) == toFixed9(amount * price, 1)

\* Number(token.dynamicPrice || 0.1)
PriceNow(token) ==
  IF token.dynamicPrice = 0 THEN DefaultDynamicPrice ELSE token.dynamicPrice

\* Lines 141-148 taking the listing token's price from dynamicPrice as well.
SaleCost_OneBranch(token, amount) ==
  Cost(amount, IF "dynamicPrice" \in DOMAIN token THEN PriceNow(token)
               ELSE DefaultDynamicPrice)

\* lines 141-148
SaleCost(token, amount) ==
  IF token.type = "listing"
  THEN Cost(amount, token.pricePerToken)
  ELSE Cost(amount, PriceNow(token))

\* Lines 141-143 without the comparison with the remaining supply.
NotEnoughSupply_Unchecked(token, amount) == FALSE

\* lines 141-143
NotEnoughSupply(token, amount) ==
  token.type = "listing" /\ amount > token.remainingSupply

NewSale(tokenId, token, buyer, amount) ==
  [tokenId |-> tokenId, buyer |-> buyer, seller |-> token.owner,
   amountTokens |-> amount, cost |-> SaleCost(token, amount),
   status |-> "pending", txHash |-> Null, confirmedAt |-> FALSE]

\* { ...sale, role, note: 'pending' }
PendingEntry(saleId, sale, role) ==
  [type |-> "pending", saleId |-> saleId, tokenId |-> sale.tokenId,
   from |-> sale.buyer, to |-> sale.seller, amount |-> sale.amountTokens,
   cost |-> sale.cost, role |-> role]

BuyTokenIds == TokenIds \cup {"X"}
BuyBuyers == Buyers \cup {NoAddr}
Amounts == -1..MaxQty

\* lines 128-160: validation, the token read, the cost, the sale id.
BuyRead(p) ==
  /\ Free(p)
  /\ Open("buy")
  /\ UNCHANGED store
  /\ \E tokenId \in BuyTokenIds, buyer \in BuyBuyers, amountTokens \in Amounts :
       IF buyer = NoAddr \/ amountTokens = 0
       THEN Respond(p, 400, "missing") /\ UNCHANGED <<nextUid, budget>>
       ELSE IF tokenId \notin DOMAIN tokens
       THEN Respond(p, 404, "token_not_found") /\ UNCHANGED <<nextUid, budget>>
       ELSE IF amountTokens <= 0
       THEN Respond(p, 400, "bad_amount") /\ UNCHANGED <<nextUid, budget>>
       ELSE IF NotEnoughSupply(tokens[tokenId], amountTokens)
       THEN Respond(p, 400, "not_enough_supply") /\ UNCHANGED <<nextUid, budget>>
       ELSE /\ Accept("buy")
            /\ Goto(p, "buy_sale",
                    [saleId |-> nextUid,
                     sale |-> NewSale(tokenId, tokens[tokenId], buyer, amountTokens)])
            /\ nextUid' = nextUid + 1

\* line 162
BuySetSale(p) ==
  /\ At(p, "buy_sale")
  /\ sales' = (loc[p].saleId :> loc[p].sale) @@ sales
  /\ Goto(p, "buy_hist_buyer", loc[p])
  /\ UNCHANGED <<tokens, balances, history, nextUid, budget>>

\* line 164
BuyHistBuyer(p) ==
  /\ At(p, "buy_hist_buyer")
  /\ HistorySet(loc[p].sale.buyer, loc[p].saleId,
                PendingEntry(loc[p].saleId, loc[p].sale, "buyer"))
  /\ Goto(p, "buy_hist_seller", loc[p])
  /\ UNCHANGED <<tokens, sales, balances, nextUid, budget>>

\* lines 165-167
BuyHistSeller(p) ==
  /\ At(p, "buy_hist_seller")
  /\ HistorySet(loc[p].sale.seller, loc[p].saleId,
                PendingEntry(loc[p].saleId, loc[p].sale, "seller"))
  /\ Respond(p, 200, "ok")
  /\ UNCHANGED <<tokens, sales, balances, nextUid, budget>>

(***************************************************************************)
(* POST /api/sales/:saleId/confirm                                         *)
(***************************************************************************)
\* The guard of line 182 comparing with a status no sale ever has.
AlreadyConfirmed_Misspelt(sale) == sale.status = "confirm"

\* The guard of line 182 turning away a sale left for a later check as well.
AlreadyConfirmed_OrChecked(sale) == sale.status \in {"confirmed", "pending_check"}

\* line 182
AlreadyConfirmed(sale) == sale.status = "confirmed"

\* Lines 245 / 284 with the cost derived again from the token's present price.
okAmount_Repriced(val, sale) ==
  val >= Cost(sale.amountTokens, PriceNow(tokens[sale.tokenId])) - EpsilonNano

\* line 245 / 284
okAmount(val, sale) == val >= sale.cost - EpsilonNano

\* line 246
okSender(sender, sale) ==
  IF sender # NoAddr
  THEN normalizeAddr(sender) = normalizeAddr(sale.buyer)
  ELSE TRUE

\* A transaction as the handler reads it: utime (hasTime, age = nowSec - utime),
\* the parsed value, the sender, the hash.
TxHashes == {"h1"}
SenderChoices == {NoAddr, AliceAlt, Bob}
ValChoices(sale) ==
  {v \in {0, sale.cost - EpsilonNano - 1, sale.cost - EpsilonNano, sale.cost} : v >= 0}
HashTxChoices(sale) ==
  [val : ValChoices(sale), sender : SenderChoices]
ScanTxChoices(sale) ==
  [hasTime : {TRUE}, age : {DaySeconds, DaySeconds + 1},
   val : {sale.cost - EpsilonNano - 1, sale.cost - EpsilonNano},
   sender : SenderChoices, hash : TxHashes]
  \cup [hasTime : {FALSE}, age : {0}, val : {sale.cost},
        sender : {NoAddr}, hash : {Null}]
ScanAnswers(sale) ==
  UNION {[1..n -> ScanTxChoices(sale)] : n \in 0..MaxTxs}

\* line 277
TooOld(tx) == tx.hasTime /\ tx.age > DaySeconds

\* lines 284-295: the sender is looked at, and the transaction is taken either way.
Candidate(tx, sale) ==
  /\ ~TooOld(tx)
  /\ okAmount(tx.val, sale)
  /\ IF tx.sender = NoAddr \/ normalizeAddr(tx.sender) = normalizeAddr(sale.buyer)
     THEN TRUE
     ELSE TRUE

\* lines 272-296: the first candidate of the list, 0 when there is none.
RECURSIVE FirstMatch(_, _, _)
FirstMatch(txs, sale, i) ==
  IF i > Len(txs) THEN 0
  ELSE IF Candidate(txs[i], sale) THEN i
  ELSE FirstMatch(txs, sale, i + 1)

\* line 181: of the sale it reads the handler goes on to use these fields.
SaleRead(sale) ==
  [tokenId |-> sale.tokenId, buyer |-> sale.buyer, seller |-> sale.seller,
   amountTokens |-> sale.amountTokens, cost |-> sale.cost]

\* lines 177-182
ConfirmRead(p) ==
  /\ Free(p)
  /\ Open("confirm")
  /\ UNCHANGED <<store, nextUid>>
  /\ \E saleId \in DOMAIN sales \cup {0}, txHash \in TxHashes \cup {Null} :
       IF saleId \notin DOMAIN sales
       THEN Respond(p, 404, "sale_not_found") /\ UNCHANGED budget
       ELSE IF AlreadyConfirmed(sales[saleId])
       THEN Respond(p, 200, "already_confirmed") /\ UNCHANGED budget
       ELSE /\ Accept("confirm")
            /\ IF txHash # Null
               THEN Goto(p, "c_hash", [saleId |-> saleId, txHash |-> txHash,
                                        sale |-> SaleRead(sales[saleId])])
               ELSE Goto(p, "c_scan", [saleId |-> saleId,
                                        sale |-> SaleRead(sales[saleId])])

\* lines 228-258: getTransaction by hash.
ConfirmHash(p) ==
  /\ At(p, "c_hash")
  /\ UNCHANGED <<store, nextUid, budget>>
  /\ \/ Goto(p, "c_scan", Keep(loc[p], {"saleId", "sale"}))   \* no usable answer
     \/ \E tx \in HashTxChoices(loc[p].sale) :
          IF okAmount(tx.val, loc[p].sale) /\ okSender(tx.sender, loc[p].sale)
          THEN Goto(p, "f_status",
                    Keep(loc[p], {"saleId", "sale"}) @@
                    [foundHash |-> loc[p].txHash, val |-> tx.val, sender |-> tx.sender])
          ELSE Send(p, [code |-> 400, body |-> "tx_mismatch", foundAmount |-> tx.val,
                        sender |-> tx.sender, saleId |-> loc[p].saleId])

\* lines 262-305: getTransactions of the seller.
ConfirmScan(p) ==
  /\ At(p, "c_scan")
  /\ UNCHANGED <<store, nextUid, budget>>
  /\ \/ Goto(p, "c_unavail", Keep(loc[p], {"saleId"}))   \* !resTx.data || !resTx.data.ok
     \/ \E txs \in ScanAnswers(loc[p].sale) :
          LET m == FirstMatch(txs, loc[p].sale, 1) IN
          IF m = 0
          THEN Goto(p, "c_notfound", Keep(loc[p], {"saleId"}))
          ELSE Goto(p, "f_status",
                    loc[p] @@ [foundHash |-> txs[m].hash, val |-> txs[m].val,
                               sender |-> txs[m].sender])

\* Lines 266 / 300 without the write.
SetPendingCheck_Skipped(saleId) == sales' = sales

\* sales/<saleId>/status.set('pending_check')
SetPendingCheck(saleId) ==
  sales' = [sales EXCEPT ![saleId].status = "pending_check"]

\* lines 266-267
ConfirmUnavailable(p) ==
  /\ At(p, "c_unavail")
  /\ SetPendingCheck(loc[p].saleId)
  /\ Respond(p, 200, "txs_unavailable")
  /\ UNCHANGED <<tokens, balances, history, nextUid, budget>>

\* lines 300-301
ConfirmNotFound(p) ==
  /\ At(p, "c_notfound")
  /\ SetPendingCheck(loc[p].saleId)
  /\ Respond(p, 200, "not_found")
  /\ UNCHANGED <<tokens, balances, history, nextUid, budget>>


(***************************************************************************)
(* finalizeSale(foundHash), lines 185-225: every write is made from the    *)
(* sale the handler read at line 179 and from what finalizeSale itself     *)
(* reads.                                                                  *)
(***************************************************************************)
\* line 187
FinStatus(p) ==
  /\ At(p, "f_status")
  /\ sales' = [sales EXCEPT ![loc[p].saleId].status = "confirmed"]
  /\ Goto(p, "f_txhash", Keep(loc[p], {"saleId", "sale", "foundHash"}))
  /\ UNCHANGED <<tokens, balances, history, nextUid, budget>>

\* line 188
FinTxHash(p) ==
  /\ At(p, "f_txhash")
  /\ sales' = [sales EXCEPT ![loc[p].saleId].txHash = loc[p].foundHash]
  /\ Goto(p, "f_confirmed_at", Keep(loc[p], {"saleId", "sale"}))
  /\ UNCHANGED <<tokens, balances, history, nextUid, budget>>

\* line 189
FinConfirmedAt(p) ==
  /\ At(p, "f_confirmed_at")
  /\ sales' = [sales EXCEPT ![loc[p].saleId].confirmedAt = TRUE]
  /\ Goto(p, "f_token", loc[p])
  /\ UNCHANGED <<tokens, balances, history, nextUid, budget>>

\* Line 199 without its Math.max(0, .).
NewRemaining_NoFloor(token, sale) == token.remainingSupply - sale.amountTokens

\* lines 198-199: Math.max(0, remainingSupply - amountTokens)
NewRemaining(token, sale) == Max(0, token.remainingSupply - sale.amountTokens)

\* line 202
NewIssued(token, sale) == token.supplyIssued + sale.amountTokens

\* lines 204-207: Number((oldPrice * (1 + alpha * amountTokens)).toFixed(9));
\* oldPrice * (1 + q / 200) = oldPrice + oldPrice * q / 200, and oldPrice is whole.
NewPrice(token, sale) ==
  PriceNow(token) + toFixed9(PriceNow(token) * sale.amountTokens, AlphaInverse)

\* lines 192-197: the token read, and the branch on its type.
FinReadToken(p) ==
  /\ At(p, "f_token")
  /\ LET tokenId == loc[p].sale.tokenId IN
     IF tokenId \notin DOMAIN tokens
     THEN Goto(p, "f_balance", loc[p])
     ELSE Goto(p, IF tokens[tokenId].type = "listing" THEN "f_remaining" ELSE "f_issued",
               loc[p] @@ [token |-> tokens[tokenId]])
  /\ UNCHANGED <<store, nextUid, budget>>

\* line 199
FinSetRemaining(p) ==
  /\ At(p, "f_remaining")
  /\ tokens' = [tokens EXCEPT ![loc[p].sale.tokenId].remainingSupply =
                  NewRemaining(loc[p].token, loc[p].sale)]
  /\ Goto(p, "f_balance", Keep(loc[p], {"saleId", "sale"}))
  /\ UNCHANGED <<sales, balances, history, nextUid, budget>>

\* line 208
FinSetIssued(p) ==
  /\ At(p, "f_issued")
  /\ tokens' = [tokens EXCEPT ![loc[p].sale.tokenId].supplyIssued =
                  NewIssued(loc[p].token, loc[p].sale)]
  /\ Goto(p, "f_price", loc[p])
  /\ UNCHANGED <<sales, balances, history, nextUid, budget>>

\* line 209
FinSetPrice(p) ==
  /\ At(p, "f_price")
  /\ tokens' = [tokens EXCEPT ![loc[p].sale.tokenId].dynamicPrice =
                  NewPrice(loc[p].token, loc[p].sale)]
  /\ Goto(p, "f_balance", Keep(loc[p], {"saleId", "sale"}))
  /\ UNCHANGED <<sales, balances, history, nextUid, budget>>

\* lines 214-216
FinReadBalance(p) ==
  /\ At(p, "f_balance")
  /\ Goto(p, "f_credit",
          loc[p] @@ [prev |-> balances[loc[p].sale.tokenId][loc[p].sale.buyer]])
  /\ UNCHANGED <<store, nextUid, budget>>

\* line 217
Credit(prev, amount) == prev + amount

FinSetBalance(p) ==
  /\ At(p, "f_credit")
  /\ balances' = [balances EXCEPT ![loc[p].sale.tokenId][loc[p].sale.buyer] =
                    Credit(loc[p].prev, loc[p].sale.amountTokens)]
  /\ Goto(p, "f_hist_buyer", Keep(loc[p], {"saleId", "sale"}))
  /\ UNCHANGED <<tokens, sales, history, nextUid, budget>>

\* line 220
ConfirmedEntry(saleId, sale, role) ==
  [type |-> "buy_confirmed", saleId |-> saleId, tokenId |-> sale.tokenId,
   from |-> sale.buyer, to |-> sale.seller, amount |-> sale.amountTokens,
   cost |-> sale.cost, role |-> role]

\* line 221
FinHistBuyer(p) ==
  /\ At(p, "f_hist_buyer")
  /\ HistorySet(loc[p].sale.buyer, Fresh,
                ConfirmedEntry(loc[p].saleId, loc[p].sale, "buyer"))
  /\ Goto(p, "f_hist_seller", loc[p])
  /\ UNCHANGED <<tokens, sales, balances, nextUid, budget>>

\* lines 222-224
FinHistSeller(p) ==
  /\ At(p, "f_hist_seller")
  /\ HistorySet(loc[p].sale.seller, Fresh,
                ConfirmedEntry(loc[p].saleId, loc[p].sale, "seller"))
  /\ Respond(p, 200, "sale_confirmed")
  /\ UNCHANGED <<tokens, sales, balances, nextUid, budget>>

(***************************************************************************)
(* POST /api/transfer                                                      *)
(***************************************************************************)
TransferAccounts == {Alice, Bob}

\* Line 325 letting through a request for one more than the account holds.
InsufficientBalance_Lenient(have, amt) == have + 1 < amt

\* line 325
InsufficientBalance(have, amt) == have < amt

\* Line 327 with the operands of the subtraction exchanged.
Debit_Swapped(have, amt) == amt - have

\* line 327
Debit(have, amt) == have - amt

\* line 332
TransferEntry(tokenId, from, to, amt, role) ==
  [type |-> "transfer", saleId |-> 0, tokenId |-> tokenId, from |-> from,
   to |-> to, amount |-> amt, cost |-> 0, role |-> role]

\* lines 315-325
TransferRead(p) ==
  /\ Free(p)
  /\ Open("transfer")
  /\ UNCHANGED <<store, nextUid>>
  /\ \E tokenId \in TokenIds \cup {Null}, from \in TransferAccounts \cup {NoAddr},
        to \in TransferAccounts \cup {NoAddr}, amount \in Amounts :
       IF tokenId = Null \/ from = NoAddr \/ to = NoAddr \/ amount = 0
       THEN Respond(p, 400, "missing") /\ UNCHANGED budget
       ELSE IF amount <= 0
       THEN Respond(p, 400, "bad_amount") /\ UNCHANGED budget
       ELSE IF InsufficientBalance(balances[tokenId][from], amount)
       THEN Respond(p, 400, "insufficient_balance") /\ UNCHANGED budget
       ELSE /\ Accept("transfer")
            /\ Goto(p, "t_debit",
                    [tokenId |-> tokenId, from |-> from, to |-> to,
                     amt |-> amount, have |-> balances[tokenId][from]])

\* line 327
TransferSetFrom(p) ==
  /\ At(p, "t_debit")
  /\ balances' = [balances EXCEPT ![loc[p].tokenId][loc[p].from] =
                    Debit(loc[p].have, loc[p].amt)]
  /\ Goto(p, "t_read_to", Keep(loc[p], {"tokenId", "from", "to", "amt"}))
  /\ UNCHANGED <<tokens, sales, history, nextUid, budget>>

\* lines 328-329
TransferReadTo(p) ==
  /\ At(p, "t_read_to")
  /\ Goto(p, "t_credit", loc[p] @@ [prev |-> balances[loc[p].tokenId][loc[p].to]])
  /\ UNCHANGED <<store, nextUid, budget>>

\* line 330
TransferSetTo(p) ==
  /\ At(p, "t_credit")
  /\ balances' = [balances EXCEPT ![loc[p].tokenId][loc[p].to] =
                    Credit(loc[p].prev, loc[p].amt)]
  /\ Goto(p, "t_hist_from", Keep(loc[p], {"tokenId", "from", "to", "amt"}))
  /\ UNCHANGED <<tokens, sales, history, nextUid, budget>>

\* line 333
TransferHistFrom(p) ==
  /\ At(p, "t_hist_from")
  /\ HistorySet(loc[p].from, Fresh,
                TransferEntry(loc[p].tokenId, loc[p].from, loc[p].to, loc[p].amt, "sender"))
  /\ Goto(p, "t_hist_to", loc[p])
  /\ UNCHANGED <<tokens, sales, balances, nextUid, budget>>

\* lines 334-336
TransferHistTo(p) ==
  /\ At(p, "t_hist_to")
  /\ HistorySet(loc[p].to, Fresh,
                TransferEntry(loc[p].tokenId, loc[p].from, loc[p].to, loc[p].amt, "receiver"))
  /\ Respond(p, 200, "ok")
  /\ UNCHANGED <<tokens, sales, balances, nextUid, budget>>

(***************************************************************************)
(* The handlers, and the server running them concurrently.                 *)
(***************************************************************************)
Buy(p) == BuyRead(p) \/ BuySetSale(p) \/ BuyHistBuyer(p) \/ BuyHistSeller(p)

Verify(p) ==
  \/ ConfirmRead(p) \/ ConfirmHash(p) \/ ConfirmScan(p)
  \/ ConfirmUnavailable(p) \/ ConfirmNotFound(p)

Finalize(p) ==
  \/ FinStatus(p) \/ FinTxHash(p) \/ FinConfirmedAt(p) \/ FinReadToken(p)
  \/ FinSetRemaining(p) \/ FinSetIssued(p) \/ FinSetPrice(p)
  \/ FinReadBalance(p) \/ FinSetBalance(p) \/ FinHistBuyer(p) \/ FinHistSeller(p)

Confirm(p) == Verify(p) \/ Finalize(p)

Transfer(p) ==
  \/ TransferRead(p) \/ TransferSetFrom(p) \/ TransferReadTo(p)
  \/ TransferSetTo(p) \/ TransferHistFrom(p) \/ TransferHistTo(p)

\* The client has its response; the process may serve the next request.
Close(p) ==
  /\ pc[p] = "sent"
  /\ pc' = [pc EXCEPT ![p] = "idle"]
  /\ res' = [res EXCEPT ![p] = NoRes]
  /\ UNCHANGED <<store, nextUid, loc, budget>>

Next == \E p \in Procs : Buy(p) \/ Confirm(p) \/ Transfer(p) \/ Close(p)

Spec == Init /\ [][Next]_vars

(***************************************************************************)
(* Two sales of the listing token, and their confirmations.                *)
(***************************************************************************)
ListingInit ==
  InitWith({"L"}, 0, [buy |-> MaxSales, confirm |-> MaxConfirms, transfer |-> 0])

ListingNext ==
  \E p \in Procs :
    \/ Buy(p) \/ Verify(p)
    \/ FinStatus(p) \/ FinTxHash(p) \/ FinConfirmedAt(p) \/ FinReadToken(p)
    \/ FinSetRemaining(p)
    \/ FinReadBalance(p) \/ FinSetBalance(p) \/ FinHistBuyer(p) \/ FinHistSeller(p)
    \/ Close(p)

ListingSpec == ListingInit /\ [][ListingNext]_vars

(***************************************************************************)
(* Two sales of the user token, and their confirmations.                   *)
(***************************************************************************)
UserInit ==
  InitWith({"U"}, 0, [buy |-> MaxSales, confirm |-> MaxConfirms, transfer |-> 0])

UserNext ==
  \E p \in Procs :
    \/ Buy(p) \/ Verify(p)
    \/ FinStatus(p) \/ FinTxHash(p) \/ FinConfirmedAt(p) \/ FinReadToken(p)
    \/ FinSetIssued(p) \/ FinSetPrice(p)
    \/ FinReadBalance(p) \/ FinSetBalance(p) \/ FinHistBuyer(p) \/ FinHistSeller(p)
    \/ Close(p)

UserSpec == UserInit /\ [][UserNext]_vars

(***************************************************************************)
(* Transfers between accounts that hold a balance.                         *)
(***************************************************************************)
TransferInit ==
  InitWith(TokenIds, InitBalance, [buy |-> 0, confirm |-> 0, transfer |-> MaxMoves])

TransferNext == \E p \in Procs : Transfer(p) \/ Close(p)

TransferSpec == TransferInit /\ [][TransferNext]_vars

(***************************************************************************)
(* Two sales of the user token, their confirmations, and a transfer.       *)
(***************************************************************************)
MarketInit ==
  InitWith({"U"}, 0, [buy |-> MaxSales, confirm |-> MaxConfirms, transfer |-> MaxTransfers])

MarketNext == UserNext \/ \E p \in Procs : Transfer(p)

MarketSpec == MarketInit /\ [][MarketNext]_vars

(***************************************************************************)
(* The listing token served by one process: the handlers run one after     *)
(* the other.                                                              *)
(***************************************************************************)
SeqNext ==
  \/ Buy(1) \/ Verify(1)
  \/ FinStatus(1) \/ FinTxHash(1) \/ FinConfirmedAt(1) \/ FinReadToken(1)
  \/ FinSetRemaining(1)
  \/ FinReadBalance(1) \/ FinSetBalance(1) \/ FinHistBuyer(1) \/ FinHistSeller(1)
  \/ Close(1)

SeqSpec == ListingInit /\ [][SeqNext]_vars

(***************************************************************************)
(* The server process dies while a confirm handler is suspended at an      *)
(* await of finalizeSale: the handlers in flight are gone and answer       *)
(* nothing, the store keeps what has been written.  One sale of the        *)
(* listing token, requests served one after the other.                     *)
(***************************************************************************)
FinalizeLabels ==
  {"f_txhash", "f_confirmed_at", "f_token", "f_remaining", "f_issued", "f_price",
   "f_balance", "f_credit", "f_hist_buyer", "f_hist_seller"}

Crash ==
  /\ Open("crash")
  /\ \E p \in Procs : pc[p] \in FinalizeLabels
  /\ Accept("crash")
  /\ pc' = [p \in Procs |-> "idle"]
  /\ loc' = [p \in Procs |-> IdleLoc]
  /\ res' = [p \in Procs |-> NoRes]
  /\ UNCHANGED <<store, nextUid>>

CrashInit ==
  InitWith({"L"}, 0, [buy |-> MaxBuys, confirm |-> MaxConfirms, transfer |-> 0,
                      crash |-> MaxCrashes])

CrashNext == SeqNext \/ Crash

CrashSpec == CrashInit /\ [][CrashNext]_vars

(***************************************************************************)
(* A sale, of either token, that an inconclusive confirm call has left     *)
(* PendingCheck, and the confirm calls made for it again and again, one    *)
(* after the other.  The handler's continuations are run, the call is      *)
(* made again whenever the server is idle, and the oracle does not         *)
(* withhold a matching transaction for ever.                               *)
(***************************************************************************)
RetryInit ==
  \E tokenId \in TokenIds, amount \in 1..MaxQty :
    LET token == IF tokenId = "L" THEN ListingToken ELSE UserToken
        sale == [NewSale(tokenId, token, Alice, amount) EXCEPT !.status = "pending_check"] IN
    /\ tokens = [t \in {tokenId} |-> token]
    /\ sales = (1 :> sale)
    /\ balances = [t \in TokenIds |-> [a \in Accounts |-> 0]]
    /\ history = [a \in Accounts |->
                   IF a = sale.buyer THEN SetToBag({PendingEntry(1, sale, "buyer")})
                   ELSE IF a = sale.seller THEN SetToBag({PendingEntry(1, sale, "seller")})
                   ELSE EmptyBag]
    /\ nextUid = 2
    /\ pc = [p \in Procs |-> "idle"]
    /\ loc = [p \in Procs |-> IdleLoc]
    /\ res = [p \in Procs |-> NoRes]
    /\ budget = [buy |-> 0, confirm |-> 0, transfer |-> 0]

\* lines 177-182, for a call made again on a sale that exists.
ConfirmRetry(p) ==
  /\ Free(p)
  /\ UNCHANGED <<store, nextUid, budget>>
  /\ \E saleId \in DOMAIN sales, txHash \in TxHashes \cup {Null} :
       IF AlreadyConfirmed(sales[saleId])
       THEN Respond(p, 200, "already_confirmed")
       ELSE IF txHash # Null
       THEN Goto(p, "c_hash", [saleId |-> saleId, txHash |-> txHash,
                                sale |-> SaleRead(sales[saleId])])
       ELSE Goto(p, "c_scan", [saleId |-> saleId, sale |-> SaleRead(sales[saleId])])

\* The oracle answers with a transaction that the handler takes for the payment.
Match(p) == (ConfirmHash(p) \/ ConfirmScan(p)) /\ pc'[p] = "f_status"

RetryNext ==
  \/ ConfirmRetry(1) \/ ConfirmHash(1) \/ ConfirmScan(1)
  \/ ConfirmUnavailable(1) \/ ConfirmNotFound(1)
  \/ FinStatus(1) \/ FinTxHash(1) \/ FinConfirmedAt(1) \/ FinReadToken(1)
  \/ FinSetRemaining(1) \/ FinSetIssued(1) \/ FinSetPrice(1)
  \/ FinReadBalance(1) \/ FinSetBalance(1) \/ FinHistBuyer(1) \/ FinHistSeller(1)
  \/ Close(1)

RetrySpec ==
  RetryInit /\ [][RetryNext]_vars /\ WF_vars(RetryNext) /\ SF_vars(Match(1))

(***************************************************************************)
(* A listing token created by Alice, who also buys it: the buyer and the   *)
(* seller of its sales are one account.  Requests are served one after     *)
(* the other.                                                              *)
(***************************************************************************)
SelfInit ==
  /\ tokens = [t \in {"L"} |-> [ListingToken EXCEPT !.owner = Alice]]
  /\ sales = << >>
  /\ balances = [t \in TokenIds |-> [a \in Accounts |-> 0]]
  /\ history = [a \in Accounts |-> EmptyBag]
  /\ nextUid = 1
  /\ pc = [p \in Procs |-> "idle"]
  /\ loc = [p \in Procs |-> IdleLoc]
  /\ res = [p \in Procs |-> NoRes]
  /\ budget = [buy |-> MaxSales, confirm |-> MaxConfirms, transfer |-> 0]

SelfSpec == SelfInit /\ [][SeqNext]_vars


(***************************************************************************)
(* Quantities the properties speak of.                                     *)
(***************************************************************************)
RECURSIVE SumOver(_, _)
\* The sum of f[x] over the x of the finite set S.
SumOver(f, S) ==
  IF S = {} THEN 0
  ELSE LET x == CHOOSE y \in S : TRUE IN f[x] + SumOver(f, S \ {x})

\* The sales of token t bought by account a.
SalesOf(t, a) == {s \in DOMAIN sales : sales[s].tokenId = t /\ sales[s].buyer = a}

\* The quantity that the sales of token t bought by a ask for.
Ordered(t, a) == SumOver([s \in DOMAIN sales |-> sales[s].amountTokens], SalesOf(t, a))

\* The tokens of t that the accounts hold.
Held(t) == SumOver(balances[t], Accounts)

\* No handler is running, and no response is waiting to be closed.
Quiet == \A p \in Procs : pc[p] = "idle"

\* The response process p has just sent.
Sent(p, body) == pc[p] = "sent" /\ res[p].body = body

\* Process p takes a step.
Steps(p) == pc'[p] # pc[p]

(***************************************************************************)
(* C1.  No double-spend: however many confirm calls on one pending sale    *)
(* run concurrently and see a matching transaction, the sale is settled    *)
(* once: the buyer is credited the sale's quantity once, and the listing   *)
(* token's remaining supply drops by the quantity once.  Stated for the    *)
(* listing token, where no transfer runs: no account ever holds more of    *)
(* the token than its sales ask for, and the remaining supply never falls  *)
(* below the total less what the sales ask for.                            *)
(***************************************************************************)
C1_NoDoubleSpend ==
  /\ \A a \in Accounts : balances["L"][a] <= Ordered("L", a)
  /\ tokens["L"].remainingSupply >=
       tokens["L"].totalSupply - SumOver([a \in Accounts |-> Ordered("L", a)], Accounts)


(***************************************************************************)
(* C2.  Idempotence of confirm: a confirm call on a sale that is           *)
(* Confirmed, with or without a txHash, never goes on to verify a payment: *)
(* it answers 200 'already_confirmed' at once and leaves the tokens, the   *)
(* sales, the balances and the history as they are.                        *)
(***************************************************************************)
C2_ConfirmIdempotent ==
  [][\A p \in Procs :
       /\ (pc[p] = "idle" /\ pc'[p] \in {"c_hash", "c_scan"})
            => sales[loc'[p].saleId].status # "confirmed"
       /\ (Steps(p) /\ pc'[p] = "sent" /\ res'[p].body = "already_confirmed")
            => /\ res'[p].code = 200
               /\ store' = store
               /\ \E s \in DOMAIN sales : sales[s].status = "confirmed"]_vars

\* A confirm call has found its sale Confirmed.
C2_Witness == \E p \in Procs : Sent(p, "already_confirmed")

(***************************************************************************)
(* C3.  Confirmed is terminal: a sale whose stored status is Confirmed     *)
(* keeps that status in every step.                                        *)
(***************************************************************************)
C3_ConfirmedTerminal ==
  [][\A s \in DOMAIN sales :
       sales[s].status = "confirmed" => sales'[s].status = "confirmed"]_vars

(***************************************************************************)
(* C4.  Balance conservation on transfer: once the transfers that were     *)
(* started have completed, the accounts together hold of every token what  *)
(* they held before the transfers.                                         *)
(***************************************************************************)
C4_BalanceConservation ==
  Quiet => \A t \in TokenIds : Held(t) = InitBalance * Cardinality(Accounts)

(***************************************************************************)
(* C5.  Supply floor: the remaining supply of a listing token is never     *)
(* negative, however the sales and their confirmations interleave and      *)
(* also when the sales confirmed ask for more than remains.                *)
(***************************************************************************)
C5_SupplyFloor ==
  \A t \in DOMAIN tokens :
    tokens[t].type = "listing" => tokens[t].remainingSupply >= 0

\* Two sales that together ask for more than the total supply are both
\* confirmed and credited, and the remaining supply has stopped at 0.
C5_Witness ==
  /\ Quiet
  /\ \A s \in DOMAIN sales : sales[s].status = "confirmed"
  /\ Cardinality(DOMAIN sales) >= 2
  /\ Ordered("L", Alice) > tokens["L"].totalSupply
  /\ balances["L"][Alice] = Ordered("L", Alice)
  /\ tokens["L"].remainingSupply = 0


(***************************************************************************)
(* C6.  Dynamic price monotonicity: the stored price of a token priced     *)
(* dynamically never decreases in a step, and the step of a settlement     *)
(* that writes the price for a sale of quantity q writes the price the     *)
(* token has then, multiplied by 1 + 0.005 q (to nine decimals).           *)
(***************************************************************************)
C6_PriceMonotone ==
  [][/\ \A t \in DOMAIN tokens :
          tokens[t].type # "listing"
            => tokens'[t].dynamicPrice >= tokens[t].dynamicPrice
     /\ \A p \in Procs :
          (pc[p] = "f_price" /\ Steps(p))
            => LET t == loc[p].sale.tokenId
                   q == loc[p].sale.amountTokens
                   currentPrice == tokens[t].dynamicPrice
               IN  tokens'[t].dynamicPrice =
                     currentPrice + (2 * currentPrice * q + AlphaInverse) \div (2 * AlphaInverse)]_vars

(***************************************************************************)
(* C7.  A confirm call that finds no matching transaction (the oracle      *)
(* gives no usable answer, or no transaction of the seller is a            *)
(* candidate) changes no token, no balance and no history: the step that   *)
(* answers 'txs_unavailable' or 'not_found' changes the status of its sale *)
(* to PendingCheck and nothing else, and the steps that query the oracle   *)
(* change nothing at all.                                                  *)
(***************************************************************************)
C7_NoMatchOnlyStatus ==
  [][\A p \in Procs :
       /\ (pc[p] \in {"c_unavail", "c_notfound"} /\ Steps(p))
            => /\ tokens' = tokens /\ balances' = balances /\ history' = history
               /\ sales' = [sales EXCEPT ![loc[p].saleId].status = "pending_check"]
               /\ pc'[p] = "sent" /\ res'[p].code = 200
               /\ res'[p].body \in {"txs_unavailable", "not_found"}
       /\ (pc[p] \in {"c_hash", "c_scan"} /\ Steps(p)) => store' = store]_vars

\* A confirm call has found no candidate and left its sale PendingCheck.
C7_Witness ==
  \E p \in Procs :
    /\ Sent(p, "not_found")
    /\ \E s \in DOMAIN sales : sales[s].status = "pending_check"
    /\ tokens["L"].remainingSupply = tokens["L"].totalSupply
    /\ tokens["U"].dynamicPrice = DefaultDynamicPrice
    /\ \A t \in TokenIds : Held(t) = 0

(***************************************************************************)
(* C8.  Transfer rejection leaves state unchanged: a request answered      *)
(* 'insufficient_balance', 'missing' or 'bad_amount' is answered with 400  *)
(* and changes no token, sale, balance or history entry; and a transfer    *)
(* goes on to its debit only with a positive amount that the balance of    *)
(* `from` covers.                                                          *)
(***************************************************************************)
C8_TransferRejection ==
  [][\A p \in Procs :
       /\ (Steps(p) /\ pc'[p] = "sent"
             /\ res'[p].body \in {"insufficient_balance", "missing", "bad_amount"})
            => /\ pc[p] = "idle"
               /\ res'[p].code = 400
               /\ store' = store
       /\ (Steps(p) /\ pc'[p] = "t_debit")
            => /\ loc'[p].amt > 0
               /\ balances[loc'[p].tokenId][loc'[p].from] >= loc'[p].amt]_vars

\* A transfer of more than a non-empty account holds has been rejected.
C8_Witness ==
  \E p \in Procs :
    /\ Sent(p, "insufficient_balance")
    /\ \E t \in TokenIds : Held(t) > 0


(***************************************************************************)
(* C9.  Single settlement result for the listing token, one request at a   *)
(* time: every sale is created for a quantity the remaining supply covers, *)
(* at the cost quantity x pricePerToken, and is Pending until a confirm    *)
(* call verifies a payment for it; and when the only sale there is has     *)
(* just been confirmed, its status is Confirmed, the remaining supply is   *)
(* the total supply less its quantity and its buyer holds its quantity.    *)
(***************************************************************************)
C9_SingleSettlement ==
  /\ \A s \in DOMAIN sales :
       /\ sales[s].cost = sales[s].amountTokens * ListingPrice
       /\ sales[s].amountTokens \in 1..tokens["L"].totalSupply
       /\ budget.confirm = MaxConfirms => sales[s].status = "pending"
  /\ \A p \in Procs :
       (Sent(p, "sale_confirmed") /\ Cardinality(DOMAIN sales) = 1)
         => \A s \in DOMAIN sales :
              /\ sales[s].status = "confirmed"
              /\ tokens["L"].remainingSupply =
                   tokens["L"].totalSupply - sales[s].amountTokens
              /\ balances["L"][sales[s].buyer] = sales[s].amountTokens

\* The one sale, of two tokens, has just been confirmed.
C9_Witness ==
  \E p \in Procs :
    /\ Sent(p, "sale_confirmed")
    /\ DOMAIN sales = {1}
    /\ sales[1].amountTokens = 2
    /\ sales[1].cost = 2 * ListingPrice
    /\ tokens["L"].remainingSupply = InitSupply - 2

(***************************************************************************)
(* C10.  Price lock: the cost of a sale is the quantity times the price    *)
(* the token has when the buy handler reads it, it is stored as computed,  *)
(* and no step changes the cost or the quantity of a sale that exists.  A  *)
(* confirm call settles a sale only for a payment of the stored cost (less *)
(* the tolerance) or more, and answers 'tx_mismatch' only for a payment    *)
(* below the stored cost or from another sender, whatever the token's      *)
(* price has become.                                                       *)
(***************************************************************************)
C10_PriceLock ==
  [][/\ \A s \in DOMAIN sales :
          /\ s \in DOMAIN sales'
          /\ sales'[s].cost = sales[s].cost
          /\ sales'[s].amountTokens = sales[s].amountTokens
     /\ \A p \in Procs :
          /\ (Steps(p) /\ pc'[p] = "buy_sale")
               => LET token == tokens[loc'[p].sale.tokenId] IN
                  loc'[p].sale.cost =
                    loc'[p].sale.amountTokens *
                      (IF token.type = "listing" THEN token.pricePerToken
                       ELSE token.dynamicPrice)
          /\ (Steps(p) /\ pc[p] = "buy_sale")
               => sales'[loc[p].saleId].cost = loc[p].sale.cost
          /\ (Steps(p) /\ pc'[p] = "f_status")
               => loc'[p].val >= sales[loc'[p].saleId].cost - EpsilonNano
          /\ (Steps(p) /\ pc'[p] = "sent" /\ res'[p].body = "tx_mismatch")
               => \/ res'[p].foundAmount < sales[res'[p].saleId].cost - EpsilonNano
                  \/ /\ res'[p].sender # NoAddr
                     /\ normalizeAddr(res'[p].sender) #
                          normalizeAddr(sales[res'[p].saleId].buyer)]_vars

\* A payment of the stored cost is accepted for a sale whose token has become
\* dearer since the sale was created.
C10_Witness ==
  \E p \in Procs :
    /\ pc[p] = "f_status"
    /\ sales[loc[p].saleId].status = "pending"
    /\ \E s \in DOMAIN sales \ {loc[p].saleId} : sales[s].status = "confirmed"
    /\ loc[p].val = sales[loc[p].saleId].cost
    /\ loc[p].val <
         sales[loc[p].saleId].amountTokens * tokens[sales[loc[p].saleId].tokenId].dynamicPrice


(***************************************************************************)
(* C11.  Settlement is all-or-nothing under a crash: whenever a confirm    *)
(* call has answered that its sale is already Confirmed, the sale's effect *)
(* is in the store (the remaining supply is the total less the quantity    *)
(* and the buyer holds the quantity); and while no handler runs, a sale    *)
(* that is not Confirmed has had no effect.  Stated for the one sale of    *)
(* the listing token, with requests served one after the other.            *)
(***************************************************************************)
C11_AllOrNothing ==
  \A s \in DOMAIN sales :
    /\ (\E p \in Procs : Sent(p, "already_confirmed"))
         => /\ tokens["L"].remainingSupply =
                 tokens["L"].totalSupply - sales[s].amountTokens
            /\ balances["L"][sales[s].buyer] = sales[s].amountTokens
    /\ (Quiet /\ sales[s].status # "confirmed")
         => /\ tokens["L"].remainingSupply = tokens["L"].totalSupply
            /\ balances["L"][sales[s].buyer] = 0


(***************************************************************************)
(* C12.  No lost update across different sales: when two sales have been   *)
(* created, two confirm calls have verified a payment, both sales are      *)
(* Confirmed and no handler runs any more, the buyers of each token hold   *)
(* the quantities of its sales together, a listing token's remaining       *)
(* supply is max(0, total - q1 - q2) and a user token's issued supply is   *)
(* q1 + q2.                                                                *)
(***************************************************************************)
C12_NoLostUpdate ==
  ( /\ Quiet
    /\ Cardinality(DOMAIN sales) = 2
    /\ \A s \in DOMAIN sales : sales[s].status = "confirmed"
    /\ budget.confirm = MaxConfirms - 2 )
  => \A t \in DOMAIN tokens :
       LET q == SumOver([a \in Accounts |-> Ordered(t, a)], Accounts) IN
       /\ \A a \in Accounts : balances[t][a] = Ordered(t, a)
       /\ IF tokens[t].type = "listing"
          THEN tokens[t].remainingSupply = Max(0, tokens[t].totalSupply - q)
          ELSE tokens[t].supplyIssued = q


(***************************************************************************)
(* C13.  Matching rule: a confirm call goes on to settle its sale only for *)
(* a transaction, fetched by its hash or met in the scan of the seller's   *)
(* transactions, that pays the sale's cost less the tolerance or more and  *)
(* whose sender is absent or is the buyer once both are normalised.        *)
(***************************************************************************)
C13_MatchingRule ==
  [][\A p \in Procs :
       (Steps(p) /\ pc'[p] = "f_status")
         => /\ loc'[p].val >= sales[loc'[p].saleId].cost - EpsilonNano
            /\ \/ loc'[p].sender = NoAddr
               \/ normalizeAddr(loc'[p].sender) =
                    normalizeAddr(sales[loc'[p].saleId].buyer)]_vars


(***************************************************************************)
(* C14.  Inconclusive verification always ends in PendingCheck: a confirm  *)
(* call that ends while verifying, without going on to settle its sale,    *)
(* answers 200 and leaves the status of its sale PendingCheck; and the     *)
(* lookup by hash never ends the call: it goes on to the settlement or     *)
(* falls through to the scan.                                              *)
(***************************************************************************)
C14_InconclusivePendingCheck ==
  [][\A p \in Procs :
       /\ (Steps(p) /\ pc[p] \in {"c_hash", "c_scan", "c_unavail", "c_notfound"}
             /\ pc'[p] = "sent")
            => /\ res'[p].code = 200
               /\ sales'[loc[p].saleId].status = "pending_check"
       /\ (Steps(p) /\ pc[p] = "c_hash") => pc'[p] \in {"c_scan", "f_status"}]_vars

(***************************************************************************)
(* C15.  issuedSupply monotonicity: the issued supply of a token priced    *)
(* dynamically is never negative and never decreases in a step.            *)
(***************************************************************************)
C15_IssuedMonotone ==
  [][\A t \in DOMAIN tokens :
       tokens[t].type # "listing"
         => /\ tokens[t].supplyIssued >= 0
            /\ tokens'[t].supplyIssued >= tokens[t].supplyIssued]_vars


(***************************************************************************)
(* C16.  PendingCheck is retryable and leads to settlement: a confirm call *)
(* on a sale in PendingCheck goes on to verify the payment; when the call  *)
(* is made again and the oracle comes to show a matching transaction, the  *)
(* sale becomes Confirmed with its effect in the store, and stays so: the  *)
(* effect is applied once.  A call that is again inconclusive changes      *)
(* nothing in the store of a sale that is PendingCheck.                    *)
(***************************************************************************)
C16_Settled ==
  \A s \in DOMAIN sales :
    LET t == sales[s].tokenId IN
    /\ sales[s].status = "confirmed"
    /\ IF tokens[t].type = "listing"
       THEN tokens[t].remainingSupply = tokens[t].totalSupply - sales[s].amountTokens
       ELSE tokens[t].supplyIssued = sales[s].amountTokens
    /\ balances[t][sales[s].buyer] = sales[s].amountTokens

C16_RetrySettles ==
  /\ (\E s \in DOMAIN sales : sales[s].status = "pending_check") ~> [] C16_Settled
  /\ [][\A p \in Procs :
          /\ (Steps(p) /\ pc[p] = "idle" /\ pc'[p] = "sent")
               => \A s \in DOMAIN sales : sales[s].status = "confirmed"
          /\ (Steps(p) /\ pc[p] \in {"c_hash", "c_scan", "c_unavail", "c_notfound"}
                /\ pc'[p] # "f_status"
                /\ sales[loc[p].saleId].status = "pending_check")
               => store' = store]_vars

\* A call made again has settled the sale that was PendingCheck.
C16_Witness ==
  /\ \E p \in Procs : Sent(p, "sale_confirmed")
  /\ C16_Settled


(***************************************************************************)
(* C17.  createSale only checks, never reserves: no step of the buy        *)
(* handler changes a token or a balance; a call that is turned away        *)
(* ('missing', 'token_not_found', 'bad_amount', 'not_enough_supply') is    *)
(* answered 400 or 404 and changes nothing in the store; and a call goes   *)
(* on to create its sale only for a positive quantity of a token that      *)
(* exists, which the remaining supply of a listing token covers.           *)
(***************************************************************************)
C17_CreateSaleFrame ==
  [][\A p \in Procs :
       /\ (Steps(p) /\ (pc[p] \in {"buy_sale", "buy_hist_buyer", "buy_hist_seller"}
                          \/ pc'[p] = "buy_sale"))
            => tokens' = tokens /\ balances' = balances
       /\ (Steps(p) /\ pc[p] = "idle" /\ pc'[p] = "sent"
             /\ res'[p].body \in {"missing", "token_not_found", "bad_amount",
                                  "not_enough_supply"})
            => /\ res'[p].code \in {400, 404}
               /\ store' = store
       /\ (Steps(p) /\ pc'[p] = "buy_sale")
            => LET sale == loc'[p].sale IN
               /\ sale.tokenId \in DOMAIN tokens
               /\ sale.amountTokens > 0
               /\ tokens[sale.tokenId].type = "listing"
                    => sale.amountTokens <= tokens[sale.tokenId].remainingSupply]_vars

\* A buy of more than remains has been turned away, the supply that remains
\* being what the confirmed sale has left, not what the sales created ask for.
C17_Witness ==
  /\ \E p \in Procs : Sent(p, "not_enough_supply")
  /\ tokens["L"].remainingSupply < tokens["L"].totalSupply


(***************************************************************************)
(* C18.  History is append-only: in every step, every entry stored under   *)
(* an account is still stored under it afterwards, as many times; and the  *)
(* buy handler's two history writes together add two entries, also when    *)
(* the buyer and the seller are the same account.                          *)
(***************************************************************************)
C18_HistoryAppendOnly ==
  [][/\ \A a \in Accounts : history[a] \sqsubseteq history'[a]
     /\ \A p \in Procs :
          (Steps(p) /\ pc[p] = "buy_hist_seller")
            => SumOver([a \in Accounts |->
                          BagCardinality(
                            [e \in {x \in BagToSet(history'[a]) :
                                      x.type = "pending" /\ x.saleId = loc[p].saleId}
                               |-> history'[a][e]])],
                       Accounts) = 2]_vars


(***************************************************************************)
(* C19.  Capped pool: the accounts together never hold more of a listing   *)
(* token than its total supply, and its remaining supply stays between 0   *)
(* and the total supply.                                                   *)
(***************************************************************************)
C19_CappedPool ==
  \A t \in DOMAIN tokens :
    tokens[t].type = "listing"
      => /\ Held(t) <= tokens[t].totalSupply
         /\ 0 <= tokens[t].remainingSupply
         /\ tokens[t].remainingSupply <= tokens[t].totalSupply

(***************************************************************************)
(* C20.  Non-negative balances: every stored balance is at least 0 in      *)
(* every state, also while transfers that debit the same account run       *)
(* concurrently.                                                           *)
(***************************************************************************)
C20_NonNegativeBalances ==
  \A t \in DOMAIN balances : \A a \in DOMAIN balances[t] : balances[t][a] >= 0

\* A transfer is about to write its debit from a balance it read before another
\* transfer debited the same account, which now holds less than it asks for.
C20_Witness ==
  \E p \in Procs :
    /\ pc[p] = "t_debit"
    /\ balances[loc[p].tokenId][loc[p].from] < loc[p].have
    /\ balances[loc[p].tokenId][loc[p].from] < loc[p].amt

====
